---- MODULE Spec2Model ----
(***************************************************************************)
(* Semantic-analysis layer of the Leo compiler: the type-checking visitor  *)
(* for functions and circuits (check_program.rs) and the recursive import  *)
(* resolver (constraints/import.rs).                                       *)
(***************************************************************************)
EXTENDS Integers, Sequences, FiniteSets, TLC

VARIABLES
    \* ---- TypeChecker (check_program.rs) ----
    has_return,     \* TypeChecker.has_return
    symbol_table,   \* TypeChecker.symbol_table (variables only): name -> type
    parent,         \* TypeChecker.parent
    handler,        \* TypeChecker.handler: the diagnostics emitted so far
    visited,        \* history: the declaration visited last
    emitted,        \* history: the diagnostics the last visit appended
    visits,         \* history: number of declarations visited so far
    prior,          \* history: what the functions visited before the last one did
    \* ---- ConstrainedProgram import resolution (import.rs) ----
    fs,             \* the source tree the resolver reads
    store,          \* ConstrainedProgram's definition store: key -> value
    stack,          \* active calls that still have work after a callee returns
    pending,        \* the call about to be executed
    result,         \* what the call of the caller returned, or how it ended
    limits,         \* what the process allows: stack room and descriptors
    hist            \* history of the running resolution

tcvars == <<has_return, symbol_table, parent, handler, visited, emitted, visits, prior>>
impvars == <<fs, store, stack, pending, result, limits, hist>>
vars == <<has_return, symbol_table, parent, handler, visited, emitted, visits, prior,
          fs, store, stack, pending, result, limits, hist>>

----------------------------------------------------------------------------
\* Bounds of the type-checker model
MaxParams == 3
MaxMembers == 3
MaxVisits == 2

NoName == "-"
ParamNames == {"x", "y"}
FunctionNames == {"f", "g"}
\* "Unknown" stands for an identifier type that names no declared circuit
MemberNames == {"owner", "balance"}
MemberTypes == {"address", "u64"}

SeqUpTo(S, n) == UNION {[1..k -> S] : k \in 0..n}

Count(s, P(_)) == Cardinality({i \in DOMAIN s : P(s[i])})

Diag(kind, name, ty) == [kind |-> kind, name |-> name, ty |-> ty]

\* check_ident_type: an identifier type that names no circuit is reported
check_ident_type(h, type_) ==
    IF type_ = "Unknown" THEN Append(h, Diag("unknown_sym", "circuit", type_)) ELSE h

\* SymbolTable::insert_variable: fails when the key is already bound and
\* leaves the table as it was
insert_variable(table, name, type_) ==
    IF name \in DOMAIN table
    THEN [ok |-> FALSE, table |-> table, err |-> Diag("duplicate_variable", name, NoName)]
    ELSE [ok |-> TRUE, table |-> table @@ (name :> type_), err |-> Diag("none", NoName, NoName)]

\* SymbolTable::clear_variables
clear_variables(table) == << >>

\* variant of visit_input that drops the error of a failed insert
visit_input_silent(tc, i) ==
    [tc EXCEPT !.symbol_table = insert_variable(tc.symbol_table, i.identifier, i.type_).table,
               !.handler = check_ident_type(tc.handler, i.type_)]

\* the closure of input.input.iter().for_each(..), applied to one parameter
visit_input(tc, i) ==
    LET h1 == check_ident_type(tc.handler, i.type_)
        ins == insert_variable(tc.symbol_table, i.identifier, i.type_)
    IN  [tc EXCEPT !.symbol_table = ins.table,
                   !.handler = IF ins.ok THEN h1 ELSE Append(h1, ins.err)]

RECURSIVE visit_inputs(_, _)
visit_inputs(tc, inputs) ==
    IF inputs = << >> THEN tc
    ELSE visit_inputs(visit_input(tc, Head(inputs)), Tail(inputs))

\* visit_block: the statement visitor sets has_return on a return statement
visit_block(tc, block) ==
    IF block.returns THEN [tc EXCEPT !.has_return = TRUE] ELSE tc

\* variant of reset_function that leaves has_return as the last visit set it
reset_function_keep_return(tc, input) ==
    [tc EXCEPT !.symbol_table = clear_variables(tc.symbol_table),
               !.parent = input.name]

\* variant of reset_function that leaves the variables of the last visit bound
reset_function_keep_table(tc, input) ==
    [tc EXCEPT !.has_return = FALSE, !.parent = input.name]

\* the state reset at the top of visit_function
reset_function(tc, input) ==
    [tc EXCEPT !.has_return = FALSE,
               !.symbol_table = clear_variables(tc.symbol_table),
               !.parent = input.name]

\* the return check at the bottom of visit_function
check_return(tc, input) ==
    IF ~tc.has_return
    THEN [tc EXCEPT !.handler = Append(tc.handler, Diag("function_has_no_return", input.name, NoName))]
    ELSE tc

\* TypeChecker::visit_function
visit_function(tc, input) ==
    LET t1 == reset_function(tc, input)
        t2 == visit_inputs(t1, input.input)
        t3 == visit_block(t2, input.block)
    IN  check_return(t3, input)

\* members.iter().all(|member| used.insert(member.name())): HashSet::insert
\* is false for a name already in the set, and all stops at the first false
RECURSIVE AllUnique(_, _)
AllUnique(members, used) ==
    IF members = << >> THEN TRUE
    ELSE IF Head(members).name \in used THEN FALSE
    ELSE AllUnique(Tail(members), used \cup {Head(members).name})

\* variant of check_members with the two diagnostics exchanged
check_members_swapped(tc, input) ==
    IF ~AllUnique(input.members, {})
    THEN [tc EXCEPT !.handler = Append(tc.handler,
              IF input.is_record
              THEN Diag("duplicate_circuit_member", input.name, NoName)
              ELSE Diag("duplicate_record_variable", input.name, NoName))]
    ELSE tc

\* the name-collision check of visit_circuit
check_members(tc, input) ==
    IF ~AllUnique(input.members, {})
    THEN [tc EXCEPT !.handler = Append(tc.handler,
              IF input.is_record
              THEN Diag("duplicate_record_variable", input.name, NoName)
              ELSE Diag("duplicate_circuit_member", input.name, NoName))]
    ELSE tc

\* Type::eq_flat on the non-generic types of the model
eq_flat(expected_ty, actual_ty) == expected_ty = actual_ty

\* Iterator::find_map: index of the first member named need, 0 when none
find_map(members, need) ==
    LET hits == {i \in DOMAIN members : members[i].name = need}
    IN  IF hits = {} THEN 0 ELSE CHOOSE i \in hits : \A j \in hits : i <= j

\* variant of check_has_field that looks at the last member named need
check_has_field_last(tc, input, need, expected_ty) ==
    LET hits == {i \in DOMAIN input.members : input.members[i].name = need}
        k == IF hits = {} THEN 0 ELSE CHOOSE i \in hits : \A j \in hits : i >= j
    IN  IF k # 0 /\ eq_flat(expected_ty, input.members[k].type_) THEN tc
        ELSE IF k # 0
        THEN [tc EXCEPT !.handler = Append(tc.handler,
                  Diag("record_var_wrong_type", input.members[k].name, expected_ty))]
        ELSE [tc EXCEPT !.handler = Append(tc.handler,
                  Diag("required_record_variable", need, expected_ty))]

\* the closure check_has_field of visit_circuit
check_has_field(tc, input, need, expected_ty) ==
    LET k == find_map(input.members, need)
    IN  IF k # 0 /\ eq_flat(expected_ty, input.members[k].type_) THEN tc
        ELSE IF k # 0
        THEN [tc EXCEPT !.handler = Append(tc.handler,
                  Diag("record_var_wrong_type", input.members[k].name, expected_ty))]
        ELSE [tc EXCEPT !.handler = Append(tc.handler,
                  Diag("required_record_variable", need, expected_ty))]

\* TypeChecker::visit_circuit
visit_circuit(tc, input) ==
    LET t1 == check_members(tc, input)
    IN  IF input.is_record
        THEN check_has_field(check_has_field(t1, input, "owner", "address"),
                             input, "balance", "u64")
        ELSE t1

----------------------------------------------------------------------------
Params == {[identifier |-> "x", type_ |-> "u64"],
           [identifier |-> "y", type_ |-> "Unknown"]}
Functions == [decl : {"function"}, name : FunctionNames,
              input : SeqUpTo(Params, MaxParams), block : [returns : BOOLEAN]]
Members == [name : MemberNames, type_ : MemberTypes]
Circuits == [decl : {"circuit"}, name : {"T"}, is_record : BOOLEAN,
             members : SeqUpTo(Members, MaxMembers)]

TC == [has_return |-> has_return, symbol_table |-> symbol_table,
       parent |-> parent, handler |-> handler]

\* the visitor at the first declaration of a program, handler holding h
TCStart(h) ==
    /\ has_return = FALSE
    /\ symbol_table = << >>
    /\ parent = NoName
    /\ handler = h
    /\ visited = [decl |-> "none"]
    /\ emitted = << >>
    /\ visits = 0
    /\ prior = [returned |-> FALSE, names |-> {}, diags |-> h # << >>]

TCInit == TCStart(<< >>)

\* what the handler holds when the first function is visited: nothing, or
\* the name collision of a circuit visited before
EarlierDiagnostics == {<< >>, <<Diag("duplicate_circuit_member", "T", NoName)>>}

Commit(t, input) ==
    /\ has_return' = t.has_return
    /\ symbol_table' = t.symbol_table
    /\ parent' = t.parent
    /\ handler' = t.handler
    /\ visited' = input
    /\ emitted' = SubSeq(t.handler, Len(handler) + 1, Len(t.handler))
    /\ visits' = visits + 1
    /\ prior' = IF visited.decl = "function"
                THEN [returned |-> prior.returned \/ visited.block.returns,
                      names |-> prior.names \cup
                                {visited.input[i].identifier : i \in DOMAIN visited.input},
                      diags |-> prior.diags \/ emitted # << >>]
                ELSE [prior EXCEPT !.diags = @ \/ emitted # << >>]

VisitFunction ==
    /\ visits < MaxVisits
    /\ \E input \in Functions : Commit(visit_function(TC, input), input)
    /\ UNCHANGED impvars

VisitCircuit ==
    /\ visits < MaxVisits
    /\ \E input \in Circuits : Commit(visit_circuit(TC, input), input)
    /\ UNCHANGED impvars

----------------------------------------------------------------------------
\* Import resolution (constraints/import.rs).  Strings are sequences of
\* tokens, so that suffix trimming and the scope join are computed.

\* Bounds of the import model
MaxEntries == 2
MaxList == 2
MaxStack == 12
MaxDescriptors == 4

SOURCE_FILE_EXTENSION == ".leo"
SOURCE_DIRECTORY_NAME == <<"src/">>

foo == <<"foo">>
bar == <<"bar">>
baz == <<"baz">>
main == <<"main">>

None == [some |-> FALSE]
Some(v) == [some |-> TRUE, v |-> v]
unwrap_or(opt, default) == IF opt.some THEN opt.v ELSE default

\* PackageAccess, Package, Import (leo_types)
Star == [tag |-> "Star"]
Symbol(symbol, alias) == [tag |-> "Symbol", symbol |-> symbol, alias |-> alias]
SubPackage(package) == [tag |-> "SubPackage", package |-> package]
Multiple(accesses) == [tag |-> "Multiple", accesses |-> accesses]
Package(name, access) == [name |-> name, access |-> access]
Import(package) == [package |-> package]

\* str::trim_end_matches: removes the pattern from the end repeatedly
RECURSIVE trim_end_matches(_, _)
trim_end_matches(s, pat) ==
    IF Len(s) > 0 /\ s[Len(s)] = pat
    THEN trim_end_matches(SubSeq(s, 1, Len(s) - 1), pat)
    ELSE s

\* new_scope: the scope join of an outer name and an inner name
new_scope(outer, inner) == outer \o <<"_">> \o inner

\* ImportError constructors
directory_error(error) == [kind |-> "DirectoryError", error |-> error]
convert_os_string == [kind |-> "ConvertOsString"]
expected_file(file_name) == [kind |-> "ExpectedFile", name |-> file_name]
parser_error(error) == [kind |-> "ParserError", error |-> error]
unknown_symbol(symbol, file, file_path) ==
    [kind |-> "UnknownSymbol", symbol |-> symbol.symbol, file |-> file, path |-> file_path]
unknown_package(name) == [kind |-> "UnknownPackage", name |-> name]

\* std::env::current_dir
current_dir == << >>

\* the directory a path of the form src/ (name src/)* leads to: the listing
\* of the source tree at that place, or the error of the first component
\* the walk fails on.  The tree has src/ and the src/ of its directories.
\* The resolver does not look at the type of an entry before it walks
\* through it; through an entry whose type the system fails to report the
\* walk fails with the error the system gives for it (io_error).
RECURSIVE walk(_, _, _)
walk(source_directory, level, io_error) ==
    LET listing == IF level = 1 THEN fs.root
                   ELSE IF level = 2 THEN fs.sub
                   ELSE [ok |-> FALSE]
    IN  IF ~listing.ok THEN [ok |-> FALSE, error |-> "NotFound"]
        ELSE IF Len(source_directory) = 1 THEN listing
        ELSE LET named == {i \in DOMAIN listing.entries :
                              listing.entries[i].file_name = source_directory[2]}
             IN  IF named = {} THEN [ok |-> FALSE, error |-> "NotFound"]
                 ELSE IF \E i \in named : ~listing.entries[i].file_type_ok
                 THEN [ok |-> FALSE, error |-> io_error]
                 ELSE IF \E i \in named : ~listing.entries[i].is_dir
                 THEN [ok |-> FALSE, error |-> "NotADirectory"]
                 ELSE walk(SubSeq(source_directory, 3, Len(source_directory)),
                           level + 1, io_error)

\* fs::read_dir of a source directory: the DirEntry list, or an io error.
\* can_open: the process has a descriptor left for the directory
read_dir(source_directory, can_open, io_error) ==
    LET listing == walk(source_directory, 1, io_error)
    IN  IF ~can_open THEN [ok |-> FALSE, error |-> "TooManyOpenFiles"]
        ELSE IF listing.ok
        THEN [ok |-> TRUE,
              entries |-> [i \in DOMAIN listing.entries |->
                  [path |-> Append(source_directory, listing.entries[i].file_name),
                   file_name |-> listing.entries[i].file_name,
                   utf8 |-> listing.entries[i].utf8,
                   file_type_ok |-> listing.entries[i].file_type_ok,
                   is_dir |-> listing.entries[i].is_dir]]]
        ELSE listing

\* LeoParser::load_file + parse_file: the syntax tree of the file at a path
parse_file(file_path) == fs.prog[<<Head(file_path[Len(file_path)])>>]

\* Program::from(syntax_tree, file_name)
ProgramFrom(syntax_tree, file_name, file_path) ==
    [name |-> file_name,
     circuits |-> [c \in syntax_tree.circuits |->
                      [decl |-> "circuit", name |-> c, file |-> file_path]],
     functions |-> [f \in syntax_tree.functions |->
                      [decl |-> "function", name |-> f, file |-> file_path]],
     imports |-> syntax_tree.imports]

\* Program::name(self, name): renames the program
ProgramName(program, name) == [program EXCEPT !.name = name]

\* parse_import_file: the file type, then the file name, then the
\* directory test, then the parser.  can_open: the process has the
\* descriptors left that load_file needs
parse_import_file(entry, can_open) ==
    IF ~entry.file_type_ok
    THEN [ok |-> FALSE, err |-> directory_error("FileType")]
    ELSE IF ~entry.utf8
    THEN [ok |-> FALSE, err |-> convert_os_string]
    ELSE IF entry.is_dir
    THEN [ok |-> FALSE, err |-> expected_file(entry.file_name)]
    ELSE IF ~can_open
    THEN [ok |-> FALSE, err |-> parser_error("TooManyOpenFiles")]
    ELSE LET syntax_tree == parse_file(entry.path)
         IN  IF ~syntax_tree.ok
             THEN [ok |-> FALSE, err |-> parser_error("Syntax")]
             ELSE [ok |-> TRUE,
                   program |-> ProgramFrom(syntax_tree, entry.file_name, entry.path)]

\* ConstrainedProgram::store: HashMap insert
Store(st, name, value) ==
    [k \in DOMAIN st \cup {name} |-> IF k = name THEN value ELSE st[k]]

CircuitDefinition(circuit_def) == [tag |-> "CircuitDefinition", def |-> circuit_def]
Function(ctx, function) == [tag |-> "Function", ctx |-> ctx, def |-> function]

----------------------------------------------------------------------------
\* The resolver as a machine m = [store, stack, pending, result, limits].
\* The stack holds one frame for every active call of the resolver;
\* pending is the call the innermost frame is about to make.  Every caller
\* propagates Err with `?`, so an error unwinds the whole stack.
\*
\* limits is what the process allows the resolver:
\*   stack        the nested calls the machine stack has room for
\*   descriptors  the descriptors the process can still open
\*   load         the descriptors LeoParser::load_file needs for a file

NoCall == [op |-> "none"]
PackageCall(scope, path, package) ==
    [op |-> "enforce_package", scope |-> scope, path |-> path, package |-> package]
AccessCall(scope, entry, access) ==
    [op |-> "enforce_package_access", scope |-> scope, entry |-> entry, access |-> access]

Ok == [tag |-> "Ok"]
Err(e) == [tag |-> "Err", err |-> e]

M == [store |-> store, stack |-> stack, pending |-> pending, result |-> result,
      limits |-> limits]

\* the directory handles the resolver holds: every active enforce_package
\* that has listed its directory keeps the handle in the entries
Held(m) == Cardinality({k \in DOMAIN m.stack : m.stack[k].fn = "enforce_package"})

\* the process can open n more descriptors
CanOpen(m, n) == Held(m) + n <= m.limits.descriptors

\* variant of Fail that also discards what the import had stored
Fail_rollback(m, e) ==
    [m EXCEPT !.store = << >>, !.stack = << >>, !.pending = NoCall, !.result = Err(e)]

\* `?` at every level of the call chain: the error is the result
Fail(m, e) == [m EXCEPT !.stack = << >>, !.pending = NoCall, !.result = Err(e)]

\* unwrap() of an Err: the thread panics, no Result is returned
Panic(m) == [m EXCEPT !.stack = << >>, !.pending = NoCall, !.result = [tag |-> "Panic"]]

\* the entry of a call: the callee gets a frame, or the process dies of
\* stack overflow when the stack has no room for it
Push(m, frame) ==
    IF Len(m.stack) >= m.limits.stack
    THEN [m EXCEPT !.stack = << >>, !.pending = NoCall,
                   !.result = [tag |-> "StackOverflow"]]
    ELSE [m EXCEPT !.stack = Append(m.stack, frame), !.pending = NoCall]

Overflowed(m) == m.result.tag = "StackOverflow"

\* a frame that has nothing to do after its callee returns
Frame(fn, scope) == [fn |-> fn, scope |-> scope, rest |-> << >>]

\* enforce_import
enforce_import(m, scope, import) ==
    LET e == Push(m, Frame("enforce_import", scope))
    IN  IF Overflowed(e) THEN e
        ELSE [e EXCEPT !.pending = PackageCall(scope, current_dir, import.package)]

\* the entries.into_iter().find(..) of enforce_package: the closure is run
\* on the entries in order until one matches, and unwraps each file name
matched_source_entry(entries, package_name) ==
    LET stops == {i \in DOMAIN entries :
                    \/ ~entries[i].utf8
                    \/ trim_end_matches(entries[i].file_name, SOURCE_FILE_EXTENSION)
                          = package_name}
        first == CHOOSE i \in stops : \A j \in stops : i <= j
    IN  IF stops = {} THEN [tag |-> "None"]
        ELSE IF ~entries[first].utf8 THEN [tag |-> "Panic"]
        ELSE [tag |-> "Some", index |-> first]

\* enforce_package.  io_error: the error the system gives read_dir for a
\* path through an entry whose type it fails to report
enforce_package(m, scope, path, package, io_error) ==
    LET e == Push(m, Frame("enforce_package", scope))
        source_directory == path \o <<SOURCE_DIRECTORY_NAME>>
        listing == read_dir(source_directory, CanOpen(m, 1), io_error)
    IN  IF Overflowed(e) THEN e
        ELSE IF ~listing.ok THEN Fail(e, directory_error(listing.error))
        ELSE LET found == matched_source_entry(listing.entries, package.name)
             IN  IF found.tag = "Panic" THEN Panic(e)
                 ELSE IF found.tag = "Some"
                 THEN [e EXCEPT !.pending =
                          AccessCall(scope, listing.entries[found.index], package.access)]
                 ELSE Fail(e, unknown_package(package.name))

\* variant of matched_value that searches the functions first
matched_value_function_first(program, symbol) ==
    IF symbol.symbol \in DOMAIN program.functions
    THEN [ok |-> TRUE, value |-> Function(None, program.functions[symbol.symbol])]
    ELSE IF symbol.symbol \in DOMAIN program.circuits
    THEN [ok |-> TRUE, value |-> CircuitDefinition(program.circuits[symbol.symbol])]
    ELSE [ok |-> FALSE]

\* the lookup of enforce_import_symbol: circuits first, then functions
matched_value(program, symbol) ==
    IF symbol.symbol \in DOMAIN program.circuits
    THEN [ok |-> TRUE, value |-> CircuitDefinition(program.circuits[symbol.symbol])]
    ELSE IF symbol.symbol \in DOMAIN program.functions
    THEN [ok |-> TRUE, value |-> Function(None, program.functions[symbol.symbol])]
    ELSE [ok |-> FALSE]

\* variant of resolved_name that ignores the alias
resolved_name_no_alias(program_name, symbol) ==
    new_scope(program_name, symbol.symbol)

\* the store key of enforce_import_symbol
resolved_name(program_name, symbol) ==
    new_scope(program_name, unwrap_or(symbol.alias, symbol.symbol))

\* enforce_import_symbol up to the evaluation of the nested imports
enforce_import_symbol(m, scope, entry, symbol) ==
    LET e == Push(m, [fn |-> "enforce_import_symbol", scope |-> scope,
                      entry |-> entry, rest |-> << >>, done |-> << >>])
        parsed == parse_import_file(entry, CanOpen(m, m.limits.load))
    IN  IF Overflowed(e) THEN e
        ELSE IF ~parsed.ok THEN Fail(e, parsed.err)
        ELSE LET program == ProgramName(parsed.program, scope)
                 program_name == program.name
                 matched == matched_value(program, symbol)
             IN  IF ~matched.ok
                 THEN Fail(e, unknown_symbol(symbol, program_name, entry.path))
                 ELSE [e EXCEPT
                         !.store = Store(m.store, resolved_name(program_name, symbol),
                                         matched.value),
                         !.stack[Len(e.stack)] =
                             [fn |-> "enforce_import_symbol", scope |-> scope,
                              entry |-> entry, program |-> program,
                              rest |-> program.imports, done |-> << >>]]

\* resolve_definitions up to the imports of the program it evaluates
resolve_definitions(m, program) ==
    Push(m, [fn |-> "resolve_definitions", scope |-> program.name,
             program |-> program, rest |-> program.imports, done |-> << >>])

\* enforce_import_star
enforce_import_star(m, scope, entry) ==
    LET e == Push(m, Frame("enforce_import_star", scope))
        parsed == parse_import_file(entry, CanOpen(m, m.limits.load))
    IN  IF Overflowed(e) THEN e
        ELSE IF ~parsed.ok THEN Fail(e, parsed.err)
        ELSE resolve_definitions(e, ProgramName(parsed.program, scope))

\* enforce_package_access
enforce_package_access(m, scope, entry, access) ==
    LET e == Push(m, [fn |-> "enforce_package_access", scope |-> scope,
                      entry |-> entry,
                      rest |-> IF access.tag = "Multiple" THEN access.accesses
                               ELSE << >>])
    IN  IF Overflowed(e) THEN e
        ELSE CASE access.tag = "Star" -> enforce_import_star(e, scope, entry)
               [] access.tag = "Symbol" -> enforce_import_symbol(e, scope, entry, access)
               [] access.tag = "SubPackage" ->
                     [e EXCEPT !.pending = PackageCall(scope, entry.path, access.package)]
               [] access.tag = "Multiple" -> e

Top(m) == m.stack[Len(m.stack)]
Pop(m) == [m EXCEPT !.stack = SubSeq(m.stack, 1, Len(m.stack) - 1)]
SetTop(m, frame) == [m EXCEPT !.stack[Len(m.stack)] = frame]

\* one iteration of `for access in accesses` of enforce_package_access
multiple_next(m) ==
    LET f == Top(m)
    IN  [SetTop(m, [f EXCEPT !.rest = Tail(f.rest)])
            EXCEPT !.pending = AccessCall(f.scope, f.entry, Head(f.rest))]

\* variant of nested_call that passes the name of the loaded file as scope
nested_call_file_scope(f) ==
    [scope |-> trim_end_matches(f.entry.file_name, SOURCE_FILE_EXTENSION),
     import |-> Head(f.rest)]

\* the enforce_import call made for the next import of the loaded program
nested_call(f) == [scope |-> f.program.name, import |-> Head(f.rest)]

\* one nested import of enforce_import_symbol
nested_import(m) ==
    LET f == Top(m)
        call == nested_call(f)
    IN  enforce_import(SetTop(m, [f EXCEPT !.rest = Tail(f.rest),
                                           !.done = Append(f.done, call)]),
                       call.scope, call.import)

\* resolve_definitions once the imports of the program are resolved: every
\* circuit and function is installed under its own name
StoreCircuits(st, defs) ==
    [k \in DOMAIN st \cup DOMAIN defs |->
        IF k \in DOMAIN defs THEN CircuitDefinition(defs[k]) ELSE st[k]]

StoreFunctions(st, defs) ==
    [k \in DOMAIN st \cup DOMAIN defs |->
        IF k \in DOMAIN defs THEN Function(None, defs[k]) ELSE st[k]]

\* the end of resolve_definitions
define_all(m) ==
    LET f == Top(m)
    IN  [Pop(m) EXCEPT !.store =
            StoreFunctions(StoreCircuits(m.store, f.program.circuits),
                           f.program.functions)]

\* the limits of a process that runs no resolver
NoLimits == [stack |-> 0, descriptors |-> 0, load |-> 0]

ImpIdle ==
    /\ fs = [root |-> [ok |-> FALSE]]
    /\ store = << >>
    /\ stack = << >>
    /\ pending = NoCall
    /\ result = [tag |-> "idle"]
    /\ limits = NoLimits
    /\ hist = [acted |-> FALSE]

FunctionInit == ImpIdle /\ \E h \in EarlierDiagnostics : TCStart(h)
FunctionNext == VisitFunction
FunctionSpec == FunctionInit /\ [][FunctionNext]_vars

CircuitInit == ImpIdle /\ TCInit
CircuitNext == VisitCircuit
CircuitSpec == CircuitInit /\ [][CircuitNext]_vars

----------------------------------------------------------------------------
\* The source trees and import declarations the resolver is run on

PkgNames == {foo, bar}
Scopes == {main, foo}

File(file_name) ==
    [file_name |-> file_name, utf8 |-> TRUE, file_type_ok |-> TRUE, is_dir |-> FALSE]
Dir(file_name) ==
    [file_name |-> file_name, utf8 |-> TRUE, file_type_ok |-> TRUE, is_dir |-> TRUE]
\* a file whose name is not valid UTF-8
NotUtf8(file_name) == [File(file_name) EXCEPT !.utf8 = FALSE]
\* a file whose type the system fails to report
NoFileType(file_name) == [File(file_name) EXCEPT !.file_type_ok = FALSE]

RootEntries == {File(<<"foo", ".leo">>), File(<<"foo", ".leo", ".leo">>),
                File(<<"bar", ".leo">>), Dir(<<"foo">>),
                NotUtf8(<<"0xFF", ".leo">>), NoFileType(<<"foo", ".leo">>)}
SubEntries == {File(<<"bar", ".leo">>)}

\* the listings of a directory: no two entries have the same file name
InjSeqUpTo(S, n) ==
    {s \in SeqUpTo(S, n) :
        \A i, j \in DOMAIN s : i # j => s[i].file_name # s[j].file_name}

Listings(E, n) ==
    {[ok |-> FALSE]} \cup {[ok |-> TRUE, entries |-> s] : s \in InjSeqUpTo(E, n)}

Tree(circuits, functions, imports) ==
    [ok |-> TRUE, circuits |-> circuits, functions |-> functions, imports |-> imports]

FooImports == {<< >>,
               <<Import(Package(bar, Symbol(baz, None)))>>,
               <<Import(Package(bar, Symbol(baz, None))),
                 Import(Package(foo, Symbol(bar, None)))>>,
               <<Import(Package(foo, Symbol(baz, None)))>>}
BarImports == {<< >>,
               <<Import(Package(foo, Symbol(bar, None)))>>,
               <<Import(Package(foo, Star))>>}

FooTrees == {[ok |-> FALSE]}
            \cup {Tree({bar}, {bar, baz}, i) : i \in FooImports}
            \cup {Tree({}, {bar}, i) : i \in FooImports}
            \cup {Tree({}, {}, << >>)}
BarTrees == {Tree({}, {baz}, i) : i \in BarImports}

HasDir(listing) ==
    listing.ok /\ \E i \in DOMAIN listing.entries : listing.entries[i].is_dir

\* the errors the system gives for a path through an entry whose type it
\* fails to report
IoErrors == {"PermissionDenied", "NotFound", "NotADirectory"}

\* a listing has a file of the package the parser can be given
HasFile(listing, name) ==
    /\ listing.ok
    /\ \E i \in DOMAIN listing.entries :
          /\ listing.entries[i] = File(listing.entries[i].file_name)
          /\ Head(listing.entries[i].file_name) = Head(name)

\* the contents of the file of a package: one of trees where the source
\* tree has such a file, nothing to parse where it has none
TreesOf(name, r, s, trees) ==
    IF HasFile(r, name) \/ HasFile(s, name) THEN trees ELSE {[ok |-> FALSE]}

FileSystems ==
    UNION {{[root |-> r, sub |-> s, prog |-> (foo :> pf) @@ (bar :> pb)] :
                pf \in TreesOf(foo, r, s, FooTrees),
                pb \in TreesOf(bar, r, s, BarTrees)} :
           r \in Listings(RootEntries, MaxEntries), s \in Listings(SubEntries, 1)}

SymbolAccesses == {Symbol(bar, None), Symbol(bar, Some(baz)), Symbol(baz, None)}

\* the entries of the access lists: an alias that takes the name of the
\* other entry, and a symbol not every file defines
ListAccesses == {Symbol(bar, Some(baz)), Symbol(baz, None)}

TopAccesses ==
    {Star} \cup SymbolAccesses
    \cup {Multiple(l) : l \in SeqUpTo(ListAccesses, MaxList)}
    \cup {Multiple(<<Multiple(<<Symbol(bar, None)>>), Star>>),
          SubPackage(Package(bar, Symbol(baz, None))),
          SubPackage(Package(bar, SubPackage(Package(baz, Symbol(baz, None)))))}

TopImports ==
    {Import(Package(foo, a)) : a \in TopAccesses}
    \cup {Import(Package(bar, Symbol(baz, None)))}

\* the import declarations the chains of nested imports are started from
ChainSymbols == {Symbol(bar, None), Symbol(baz, None)}

ChainImports ==
    {Import(Package(foo, a)) :
        a \in {Star, SubPackage(Package(bar, Symbol(baz, None))),
               Multiple(<<Symbol(bar, None), Symbol(baz, None)>>)}
              \cup ChainSymbols}
    \cup {Import(Package(bar, Symbol(baz, None)))}

\* the contents of foo the chains of nested imports go through
ChainTrees ==
    {Tree({}, {bar}, i) : i \in FooImports}
    \cup {Tree({bar}, {bar, baz}, <<Import(Package(foo, Symbol(baz, None)))>>)}

\* the limits of a process with room for every acyclic import of the trees
Generous == [stack |-> MaxStack, descriptors |-> MaxDescriptors, load |-> 1]

\* the limits the resolver is run under: generous; few descriptors, with a
\* parser that opens the file or is handed its text; a small stack
Limits ==
    {Generous}
    \cup {[Generous EXCEPT !.descriptors = d] : d \in 1..2}
    \cup {[Generous EXCEPT !.descriptors = 2, !.load = 0]}
    \cup {[Generous EXCEPT !.stack = s] : s \in {3, 6}}

\* the limits the chains of nested imports are run under
ChainLimits ==
    {Generous, [Generous EXCEPT !.descriptors = 3], [Generous EXCEPT !.stack = 6]}

\* the accesses a caller applies to a directory entry it holds
EntryAccesses == {Star, Symbol(bar, None)}

\* the import graph of the source tree: p imports q
Edge(p, q) ==
    /\ fs.prog[p].ok
    /\ \E i \in DOMAIN fs.prog[p].imports : fs.prog[p].imports[i].package.name = q

Edges == {e \in PkgNames \X PkgNames : Edge(e[1], e[2])}

\* import paths of one or two edges: every cycle over the two packages
Paths ==
    Edges \cup {e \in PkgNames \X PkgNames :
                  \E r \in PkgNames : <<e[1], r>> \in Edges /\ <<r, e[2]>> \in Edges}

Acyclic == \A p \in PkgNames : <<p, p>> \notin Paths

----------------------------------------------------------------------------
NoSymbol == [acted |-> FALSE]
NoPackage == [acted |-> FALSE]
NoReturn == [acted |-> FALSE]

ImpStart ==
    /\ store = << >>
    /\ stack = << >>
    /\ pending = NoCall
    /\ result = [tag |-> "idle"]
    /\ hist = [scope |-> main, installed |-> << >>,
               sym |-> NoSymbol, pkg |-> NoPackage, ret |-> NoReturn,
               nested |-> FALSE, reentered |-> FALSE, ledback |-> FALSE,
               list |-> << >>, applied |-> << >>,
               listed |-> FALSE, list_at |-> 0, list_entry |-> File(<< >>)]

\* the source trees with both packages present, a package directory next
\* to the package file, or a name that is not UTF-8 after the package file
ChainRoots ==
    {[ok |-> TRUE, entries |-> <<File(<<"foo", ".leo">>), File(<<"bar", ".leo">>)>>],
     [ok |-> TRUE, entries |-> <<Dir(<<"foo">>), File(<<"foo", ".leo">>)>>],
     [ok |-> TRUE, entries |-> <<File(<<"foo", ".leo">>), NotUtf8(<<"0xFF", ".leo">>)>>]}

ImpChain(envs) ==
    /\ fs \in FileSystems
    /\ fs.root \in ChainRoots
    /\ fs.prog[foo] \in ChainTrees
    /\ (~HasDir(fs.root) => fs.sub = [ok |-> FALSE])
    /\ limits \in envs
    /\ ImpStart

\* every source tree under generous limits, and the trees above under
\* every limit
ImpInit ==
    \/ /\ fs \in FileSystems
       /\ (~HasDir(fs.root) => fs.sub = [ok |-> FALSE])
       /\ limits = Generous
       /\ ImpStart
    \/ ImpChain(Limits)

Apply(m, h) ==
    /\ store' = m.store
    /\ stack' = m.stack
    /\ pending' = m.pending
    /\ result' = m.result
    /\ hist' = h
    /\ UNCHANGED <<fs, limits, has_return, symbol_table, parent, handler, visited, emitted, visits, prior>>

Running == result.tag = "pending"

\* the caller resolves one of the given import declarations
Start(scopes, imports) ==
    /\ result.tag = "idle"
    /\ \E scope \in scopes, import \in imports :
          Apply(enforce_import([M EXCEPT !.result = [tag |-> "pending"]], scope, import),
                [hist EXCEPT !.scope = scope])

\* the caller resolves a top-level import declaration of the main program
StartImport == Start(Scopes, TopImports)

\* the caller resolves an import declaration that starts a chain of imports
StartChain == Start({main}, ChainImports)

\* the caller applies an access to an entry of src/ it holds (the path
\* of src/ itself leads through no entry)
StartAccess ==
    /\ result.tag = "idle"
    /\ \E scope \in Scopes, access \in EntryAccesses :
          LET listing == read_dir(current_dir \o <<SOURCE_DIRECTORY_NAME>>, TRUE,
                                  "NotFound")
          IN  /\ listing.ok
              /\ \E i \in DOMAIN listing.entries :
                    Apply([M EXCEPT !.result = [tag |-> "pending"],
                                    !.pending = AccessCall(scope, listing.entries[i],
                                                           access)],
                          [hist EXCEPT !.scope = scope])

EnforcePackage ==
    /\ Running
    /\ pending.op = "enforce_package"
    /\ \E io_error \in IoErrors :
       LET m == enforce_package(M, pending.scope, pending.path, pending.package,
                                io_error)
       IN  Apply(m, IF Overflowed(m) THEN hist
                    ELSE [hist EXCEPT !.pkg =
                    [acted |-> TRUE, name |-> pending.package.name,
                     listing |-> read_dir(pending.path \o <<SOURCE_DIRECTORY_NAME>>,
                                          CanOpen(M, 1), io_error),
                     access |-> pending.package.access,
                     outcome |-> m.result, dispatch |-> m.pending]])

AccessStar ==
    /\ Running
    /\ pending.op = "enforce_package_access"
    /\ pending.access.tag = "Star"
    /\ Apply(enforce_package_access(M, pending.scope, pending.entry, pending.access),
             hist)

AccessSymbol ==
    /\ Running
    /\ pending.op = "enforce_package_access"
    /\ pending.access.tag = "Symbol"
    /\ LET m == enforce_package_access(M, pending.scope, pending.entry, pending.access)
           installs == m.result.tag = "pending"
           active == \E k \in DOMAIN stack :
                         /\ stack[k].fn = "enforce_import_symbol"
                         /\ stack[k].entry = pending.entry
       IN  Apply(m, IF Overflowed(m) THEN hist
                    ELSE [hist EXCEPT
                    !.sym = [acted |-> TRUE, scope |-> pending.scope,
                             entry |-> pending.entry, symbol |-> pending.access,
                             opened |-> CanOpen(M, limits.load),
                             before |-> store, after |-> m.store,
                             installs |-> installs, outcome |-> m.result],
                    !.nested = FALSE,
                    !.installed = IF installs
                                  THEN Store(@, resolved_name(pending.scope, pending.access),
                                             m.store[resolved_name(pending.scope,
                                                                   pending.access)])
                                  ELSE @,
                    !.ledback = @ \/ active,
                    !.reentered = @ \/ (installs /\ active)])

AccessSubPackage ==
    /\ Running
    /\ pending.op = "enforce_package_access"
    /\ pending.access.tag = "SubPackage"
    /\ Apply(enforce_package_access(M, pending.scope, pending.entry, pending.access),
             hist)

AccessMultiple ==
    /\ Running
    /\ pending.op = "enforce_package_access"
    /\ pending.access.tag = "Multiple"
    /\ LET m == enforce_package_access(M, pending.scope, pending.entry, pending.access)
       IN  Apply(m, IF ~hist.listed /\ ~Overflowed(m)
                    THEN [hist EXCEPT !.listed = TRUE, !.list = pending.access.accesses,
                                      !.list_at = Len(m.stack),
                                      !.list_entry = pending.entry]
                    ELSE hist)

Resuming(fn) ==
    /\ Running
    /\ pending.op = "none"
    /\ stack # << >>
    /\ Top(M).fn = fn

MultipleNext ==
    /\ Resuming("enforce_package_access")
    /\ Top(M).rest # << >>
    /\ Apply(multiple_next(M),
             IF Len(stack) = hist.list_at
             THEN [hist EXCEPT !.applied = Append(@, Head(Top(M).rest))]
             ELSE hist)

\* enforce_package_access returns Ok: the callee of a Star, Symbol or
\* SubPackage access returned, or the loop of a Multiple access ended
AccessReturn ==
    /\ Resuming("enforce_package_access")
    /\ Top(M).rest = << >>
    /\ Apply(Pop(M), hist)

SymbolNestedImport ==
    /\ Resuming("enforce_import_symbol")
    /\ Top(M).rest # << >>
    /\ Apply(nested_import(M), [hist EXCEPT !.nested = TRUE])

SymbolReturn ==
    /\ Resuming("enforce_import_symbol")
    /\ Top(M).rest = << >>
    /\ Apply(Pop(M), [hist EXCEPT !.ret =
             [acted |-> TRUE, scope |-> Top(M).scope, entry |-> Top(M).entry,
              done |-> Top(M).done]])

StarNestedImport ==
    /\ Resuming("resolve_definitions")
    /\ Top(M).rest # << >>
    /\ Apply(nested_import(M), [hist EXCEPT !.nested = TRUE])

\* resolve_definitions installs the definitions and returns Ok
StarReturn ==
    /\ Resuming("resolve_definitions")
    /\ Top(M).rest = << >>
    /\ Apply(define_all(M), hist)

\* enforce_import, enforce_package and enforce_import_star return what
\* their callee returned
Return ==
    /\ \/ Resuming("enforce_import")
       \/ Resuming("enforce_package")
       \/ Resuming("enforce_import_star")
    /\ Apply(Pop(M), hist)

\* the call of the caller returns Ok(())
Finish ==
    /\ Running
    /\ pending.op = "none"
    /\ stack = << >>
    /\ Apply([M EXCEPT !.result = Ok], hist)

Resolve ==
    \/ EnforcePackage
    \/ AccessStar \/ AccessSymbol \/ AccessSubPackage \/ AccessMultiple
    \/ MultipleNext \/ AccessReturn
    \/ SymbolNestedImport \/ SymbolReturn
    \/ StarNestedImport \/ StarReturn
    \/ Return
    \/ Finish

ImpNext == StartImport \/ StartAccess \/ Resolve

ImpSpecInit == ImpInit /\ TCInit
ImpSpec == ImpSpecInit /\ [][ImpNext]_vars
\* the resolver is one synchronous call chain: an enabled step is taken
ImpFairInit == ImpChain(ChainLimits) /\ TCInit
ImpFairNext == StartChain \/ Resolve
ImpFairSpec == ImpFairInit /\ [][ImpFairNext]_vars /\ WF_vars(Resolve)

----------------------------------------------------------------------------
\* Properties of the type-checking visitor (checked under FunctionSpec and CircuitSpec)

IsFunction == visited.decl = "function"
IsCircuit == visited.decl = "circuit"

Occurrences(inputs, name) == Count(inputs, LAMBDA i : i.identifier = name)
Duplicates(name) ==
    Count(emitted, LAMBDA d : d.kind = "duplicate_variable" /\ d.name = name)
NoReturns ==
    Count(emitted, LAMBDA d : d.kind = "function_has_no_return" /\ d.name = visited.name)

\* C5 as stated: a function with a repeated parameter name gets exactly one
\* "duplicate variable" diagnostic for each repeated name, however often the
\* name occurs, and the return check is still applied
C5_AsStated ==
    IsFunction =>
        /\ \A n \in ParamNames :
              Duplicates(n) = IF Occurrences(visited.input, n) >= 2 THEN 1 ELSE 0
        /\ NoReturns = IF visited.block.returns THEN 0 ELSE 1

\* C5 amended: visit_function emits one "duplicate variable" diagnostic for
\* every parameter whose name an earlier parameter of the same function
\* already has (n - 1 diagnostics for a name that occurs n times), and it
\* still visits the body and applies the return check afterwards
C5_Theorem ==
    IsFunction =>
        /\ \A n \in ParamNames :
              Duplicates(n) = IF Occurrences(visited.input, n) >= 1
                              THEN Occurrences(visited.input, n) - 1 ELSE 0
        /\ has_return = visited.block.returns
        /\ NoReturns = IF visited.block.returns THEN 0 ELSE 1

C5_Witness ==
    /\ IsFunction
    /\ \E n \in ParamNames : Occurrences(visited.input, n) = 3 /\ Duplicates(n) = 2
    /\ NoReturns = 1

\* C6: every visited function gets exactly one "function has no return"
\* diagnostic when its body did not set has_return and none when it did,
\* whatever the functions visited before it did
C6_Theorem ==
    IsFunction =>
        /\ NoReturns = IF visited.block.returns THEN 0 ELSE 1
        /\ Count(emitted, LAMBDA d : d.kind = "function_has_no_return") = NoReturns

C6_Witness ==
    /\ IsFunction
    /\ prior.returned
    /\ ~visited.block.returns
    /\ NoReturns = 1

Collisions ==
    Count(emitted, LAMBDA d : d.kind \in {"duplicate_record_variable",
                                          "duplicate_circuit_member"})
Shared(members) ==
    \E i, j \in DOMAIN members : i # j /\ members[i].name = members[j].name

\* C7: a circuit gets exactly one name-collision diagnostic when two of its
\* members share a name, however many collisions there are, and none when
\* the names are distinct; it is "duplicate record variable" for a record
\* and "duplicate circuit member" otherwise
C7_Theorem ==
    IsCircuit =>
        /\ Collisions = IF Shared(visited.members) THEN 1 ELSE 0
        /\ \A i \in DOMAIN emitted :
              /\ emitted[i].kind = "duplicate_record_variable" => visited.is_record
              /\ emitted[i].kind = "duplicate_circuit_member" => ~visited.is_record

C7_Witness ==
    /\ IsCircuit
    /\ visited.is_record
    /\ Len(visited.members) = 3
    /\ \A i \in DOMAIN visited.members : visited.members[i].name = "owner"
    /\ Collisions = 1
    /\ \E i \in DOMAIN emitted : emitted[i].kind = "duplicate_record_variable"

Required(need) ==
    Count(emitted, LAMBDA d : d.kind = "required_record_variable" /\ d.name = need)
WrongType(need) ==
    Count(emitted, LAMBDA d : d.kind = "record_var_wrong_type" /\ d.name = need)
Named(members, need) == {i \in DOMAIN members : members[i].name = need}
FirstNamed(members, need) ==
    CHOOSE i \in Named(members, need) : \A j \in Named(members, need) : i <= j

FieldCheck(need, expected_ty) ==
    IF ~visited.is_record
    THEN Required(need) = 0 /\ WrongType(need) = 0
    ELSE IF Named(visited.members, need) = {}
    THEN Required(need) = 1 /\ WrongType(need) = 0
    ELSE IF visited.members[FirstNamed(visited.members, need)].type_ # expected_ty
    THEN Required(need) = 0 /\ WrongType(need) = 1
    ELSE Required(need) = 0 /\ WrongType(need) = 0

\* C8: for a record and each of owner: address and balance: u64, exactly one
\* of "required record variable" (no member of that name), "record variable
\* wrong type" (the first member of that name has another type) or nothing
\* is emitted, whether or not the name-collision diagnostic is emitted, and
\* neither is ever emitted for a circuit that is not a record
C8_Theorem ==
    IsCircuit =>
        /\ FieldCheck("owner", "address")
        /\ FieldCheck("balance", "u64")
        /\ Len(emitted) = Collisions + Required("owner") + WrongType("owner")
                          + Required("balance") + WrongType("balance")

C8_Witness ==
    /\ IsCircuit
    /\ visited.is_record
    /\ Collisions = 1
    /\ WrongType("owner") = 1
    /\ Required("balance") = 1
    /\ Cardinality(Named(visited.members, "owner")) = Len(visited.members)
    /\ \E i \in DOMAIN visited.members : visited.members[i].type_ = "address"

\* the diagnostics of a function, from its declaration alone
RECURSIVE InputDiags(_, _)
InputDiags(inputs, k) ==
    IF k > Len(inputs) THEN << >>
    ELSE (IF inputs[k].type_ = "Unknown"
          THEN <<Diag("unknown_sym", "circuit", inputs[k].type_)>> ELSE << >>)
         \o (IF \E j \in 1..(k - 1) : inputs[j].identifier = inputs[k].identifier
             THEN <<Diag("duplicate_variable", inputs[k].identifier, NoName)>>
             ELSE << >>)
         \o InputDiags(inputs, k + 1)

FunctionDiags(input) ==
    InputDiags(input.input, 1)
    \o (IF input.block.returns THEN << >>
        ELSE <<Diag("function_has_no_return", input.name, NoName)>>)

IsPrefix(s, t) == Len(s) <= Len(t) /\ SubSeq(t, 1, Len(s)) = s

\* C9: the diagnostics of a visited function are determined by that function
\* alone (a parameter name of an earlier function is never reported as a
\* duplicate in a later one), and every visit keeps the diagnostics emitted
\* before it and appends its own
C9_Theorem ==
    /\ [](IsFunction => emitted = FunctionDiags(visited))
    /\ [][/\ IsPrefix(handler, handler')
          /\ handler' = handler \o emitted']_vars

C9_Witness ==
    /\ IsFunction
    /\ prior.diags
    /\ \E i \in DOMAIN visited.input : visited.input[i].identifier \in prior.names
    /\ \A n \in ParamNames : Duplicates(n) = 0

----------------------------------------------------------------------------
\* Properties of the import resolver (checked under ImpSpec and ImpFairSpec)

SymInstalled == hist.sym.acted /\ hist.sym.installs

EffectiveName(symbol) == IF symbol.alias.some THEN symbol.alias.v ELSE symbol.symbol

\* the package `foo` an entry was matched for
PackageOf(entry) == <<Head(entry.file_name)>>

\* the store call of the last Symbol import wrote the entry at key only
InstallsExactly(key) ==
    /\ key \in DOMAIN hist.sym.after
    /\ DOMAIN hist.sym.after = DOMAIN hist.sym.before \cup {key}
    /\ \A k \in DOMAIN hist.sym.before \ {key} : hist.sym.after[k] = hist.sym.before[k]

\* C1 as stated: a Symbol import of bar from package foo that finds the
\* symbol installs exactly one store entry, keyed by the scope join of `foo`
\* and the alias if given, else bar
C1_AsStated ==
    SymInstalled =>
        InstallsExactly(new_scope(PackageOf(hist.sym.entry),
                                  EffectiveName(hist.sym.symbol)))

\* C1 amended: the store call of enforce_import_symbol installs exactly one
\* entry, keyed by the scope join of the importing scope (the name the loaded
\* program is renamed to) and the alias if given, else the symbol name; the
\* package name is no part of the key
C1_Theorem ==
    SymInstalled =>
        InstallsExactly(new_scope(hist.sym.scope, EffectiveName(hist.sym.symbol)))

C1_Witness ==
    /\ SymInstalled
    /\ hist.sym.scope = main
    /\ PackageOf(hist.sym.entry) = foo
    /\ hist.sym.symbol = Symbol(bar, Some(baz))
    /\ <<"main", "_", "baz">> \in DOMAIN hist.sym.after
    /\ <<"main", "_", "bar">> \notin DOMAIN hist.sym.after
    /\ <<"foo", "_", "baz">> \notin DOMAIN hist.sym.after

\* str::strip_suffix: removes the pattern from the end once
strip_suffix(s, pat) ==
    IF Len(s) > 0 /\ s[Len(s)] = pat THEN SubSeq(s, 1, Len(s) - 1) ELSE s

SuffixMatches(listing, name) ==
    {i \in DOMAIN listing.entries :
        strip_suffix(listing.entries[i].file_name, SOURCE_FILE_EXTENSION) = name}

\* C2: enforce_package fails with UnknownPackage naming the package exactly
\* when the listing of path/src/ succeeds and no entry's file name with the
\* .leo suffix stripped equals the package name; when there is such an entry
\* the access specification is dispatched on it
C2_AsStated ==
    hist.pkg.acted =>
        /\ hist.pkg.outcome = Err(unknown_package(hist.pkg.name))
              <=> (hist.pkg.listing.ok /\ SuffixMatches(hist.pkg.listing, hist.pkg.name) = {})
        /\ (hist.pkg.listing.ok /\ SuffixMatches(hist.pkg.listing, hist.pkg.name) # {}) =>
              /\ hist.pkg.dispatch.op = "enforce_package_access"
              /\ hist.pkg.dispatch.access = hist.pkg.access
              /\ \E i \in SuffixMatches(hist.pkg.listing, hist.pkg.name) :
                    hist.pkg.dispatch.entry = hist.pkg.listing.entries[i]

SymKey == new_scope(hist.sym.scope, EffectiveName(hist.sym.symbol))
SymTree == parse_file(hist.sym.entry.path)
SymDef(decl) ==
    [decl |-> decl, name |-> hist.sym.symbol.symbol, file |-> hist.sym.entry.path]

\* the file of an entry is one the parser is given and can read
Loads(entry) ==
    /\ entry.file_type_ok
    /\ entry.utf8
    /\ ~entry.is_dir
    /\ parse_file(entry.path).ok

\* the last Symbol import loaded its file
SymLoaded == hist.sym.acted /\ Loads(hist.sym.entry) /\ hist.sym.opened

\* C3: a Symbol import of bar from a loaded file resolves to the circuit bar
\* if the file has one, else to the function bar wrapped with no context,
\* else fails with UnknownSymbol carrying bar, the program name and the path
\* of the file; on that failure the store is unchanged and no import of the
\* loaded file is resolved
C3_Theorem ==
    SymLoaded =>
        IF hist.sym.symbol.symbol \in SymTree.circuits
        THEN /\ hist.sym.installs
             /\ hist.sym.after[SymKey] = [tag |-> "CircuitDefinition", def |-> SymDef("circuit")]
        ELSE IF hist.sym.symbol.symbol \in SymTree.functions
        THEN /\ hist.sym.installs
             /\ hist.sym.after[SymKey] =
                   [tag |-> "Function", ctx |-> None, def |-> SymDef("function")]
        ELSE /\ result = [tag |-> "Err",
                          err |-> [kind |-> "UnknownSymbol",
                                   symbol |-> hist.sym.symbol.symbol,
                                   file |-> hist.sym.scope,
                                   path |-> hist.sym.entry.path]]
             /\ PackageOf([file_name |-> result.err.path[Len(result.err.path)]])
                   = PackageOf(hist.sym.entry)
             /\ hist.sym.after = hist.sym.before
             /\ store = hist.sym.before
             /\ ~hist.nested
             /\ stack = << >>
             /\ pending = NoCall

C3_Witness ==
    /\ SymLoaded
    /\ result.tag = "Err"
    /\ result.err.kind = "UnknownSymbol"
    /\ result.err.symbol = baz
    /\ PackageOf(hist.sym.entry) = foo
    /\ SymTree.imports # << >>
    /\ store # << >>
    /\ store = hist.sym.before

\* an entry of the top-level access list that fails by itself: a Symbol whose
\* file does not load or does not define it
DirectFails(k) ==
    /\ hist.list[k].tag = "Symbol"
    /\ \/ ~Loads(hist.list_entry)
       \/ hist.list[k].symbol \notin
             (parse_file(hist.list_entry.path).circuits
                \cup parse_file(hist.list_entry.path).functions)

\* every key a Symbol import installed holds the value installed last
Retained ==
    \A key \in DOMAIN hist.installed :
        key \in DOMAIN store /\ store[key] = hist.installed[key]

\* C4: a Multiple list is applied in list order under one scope, its first
\* failing entry makes the import fail and no later entry is applied, and
\* every entry stored before the failure (by earlier list entries, or by a
\* Symbol import whose nested import then fails) is still in the store
C4_Theorem ==
    /\ hist.listed =>
          /\ IsPrefix(hist.applied, hist.list)
          /\ \A k \in DOMAIN hist.list :
                DirectFails(k) => Len(hist.applied) <= k /\ result.tag # "Ok"
    /\ \A k \in DOMAIN stack : stack[k].scope = hist.scope
    /\ pending.op # "none" => pending.scope = hist.scope
    /\ result.tag = "Err" => stack = << >> /\ pending = NoCall /\ Retained

C4_Witness ==
    /\ result.tag = "Err"
    /\ hist.listed
    /\ Len(hist.list) = 2
    /\ Len(hist.applied) = 2
    /\ DirectFails(2)
    /\ DOMAIN hist.installed # {}
    /\ \A key \in DOMAIN hist.installed : key \in DOMAIN store

NestedCalls(f, n) ==
    [i \in 1..n |-> [scope |-> f.scope, import |-> parse_file(f.entry.path).imports[i]]]

NestedInOrder ==
    /\ \A k \in DOMAIN stack :
          stack[k].fn = "enforce_import_symbol" =>
              /\ stack[k].program.name = stack[k].scope
              /\ stack[k].done = NestedCalls(stack[k], Len(stack[k].done))
    /\ hist.ret.acted =>
          hist.ret.done = NestedCalls(hist.ret, Len(parse_file(hist.ret.entry.path).imports))

Returned == result.tag \in {"Ok", "Err"}
Panicked == result.tag = "Panic"
Ended == result.tag \in {"Ok", "Err", "Panic", "StackOverflow"}

\* the errors of a process that has no file descriptor left
OutOfDescriptors ==
    /\ result.tag = "Err"
    /\ result.err \in {directory_error("TooManyOpenFiles"),
                       parser_error("TooManyOpenFiles")}

\* the resolution ended because the process ran out of stack or descriptors
Exhausted == result.tag = "StackOverflow" \/ OutOfDescriptors

\* every listed file name is valid UTF-8: enforce_package has no unwrap to
\* panic on
Utf8Names ==
    /\ fs.root.ok => \A i \in DOMAIN fs.root.entries : fs.root.entries[i].utf8
    /\ fs.sub.ok => \A i \in DOMAIN fs.sub.entries : fs.sub.entries[i].utf8

\* the limits leave room for the nesting of every acyclic graph of the trees
Roomy == limits = Generous

\* the resolution of an acyclic graph the resolver is meant for
Regular == Acyclic /\ Utf8Names /\ Roomy

\* a Symbol import led back to a file whose Symbol import is still active
\* and did not find its symbol there: it fails with UnknownSymbol
LedBackUnknown ==
    result = Err(unknown_symbol(hist.sym.symbol, hist.sym.scope, hist.sym.entry.path))

====
